---- MODULE Spec2Model ----
(***************************************************************************)
(* RunLog (ARIAtools/util/run_logging.py): the run-history ledger kept in   *)
(* <workdir>/RunLog.json.  The model keeps the JSON file, the in-memory     *)
(* dictionary self.logs and the outcome of the last call, and has one       *)
(* action per public method.                                                *)
(***************************************************************************)
EXTENDS Integers, Sequences, FiniteSets, TLC

VARIABLES
    file,       \* RunLog.json: [exists, valid, doc]; doc maps run name -> record of JSON texts
    logs,       \* self.logs: run name -> (attribute name -> Python value)
    ret,        \* outcome of the last call (what it returned or raised, and its arguments;
                \* repeated: the call before it was the same method and returned)
    clockLog,   \* readings of datetime.now() taken by create_new_entry, in call order
    nops,       \* number of calls made so far
    pc,         \* per RunLog instance sharing the workdir: "idle", or "dump" when the
                \* instance stands between the load and the dump of a write or create_new_entry
    mem,        \* per instance: its self.logs
    pending,    \* per instance: the update its call in progress makes
    done,       \* the updates of the calls that have returned
    raced       \* some call loaded while another instance stood between load and dump

raceVars == <<pc, mem, pending, done, raced>>

vars == <<file, logs, ret, clockLog, nops, pc, mem, pending, done, raced>>

\* Number of calls explored in one behaviour.
MaxOps == 4

-----------------------------------------------------------------------------
(* Python values.  A value is its type and its content; the content of the  *)
(* few values used is kept as text.                                         *)

PyValue(kind, body) == [kind |-> kind, body |-> body]

PyNone == PyValue("NoneType", "None")
PyBool(b) == PyValue("bool", IF b THEN "True" ELSE "False")
PyStr(s) == PyValue("str", s)

ArgsX1 == PyValue("dict", "'x': 1")
ArgsX2 == PyValue("dict", "'x': 2")
Tuple12 == PyValue("tuple", "1, 2")
Set12 == PyValue("set", "1, 2")
PathA == PyStr("a.shp")
PathACopy == PyStr("a_copy.shp")
PathB == PyStr("b.shp")
PathMissing == PyStr("missing.shp")

\* The calls of write() the pipeline makes: <<atr_name, atr_value>>.
WriteCalls ==
    ({"args"} \X {ArgsX1, ArgsX2, Tuple12, Set12})
    \cup ({"prods_TOTbbox"} \X {PathA, PathACopy, PathB, PathMissing})
    \cup ({"prods_TOTbbox_metadatalyr"} \X {PathA, PathB})

BboxKeys == {"prods_TOTbbox", "prods_TOTbbox_metadatalyr"}

PolyName(name) ==
    CASE name = "prods_TOTbbox" -> "prods_TOTbbox_poly"
      [] name = "prods_TOTbbox_metadatalyr" -> "prods_TOTbbox_metadatalyr_poly"

EmptyRecord == [a \in {} |-> PyNone]
EmptyLogs == [r \in {} |-> EmptyRecord]

-----------------------------------------------------------------------------
(* The JSON codec (json.dump / json.load).  A JSON text is its syntactic    *)
(* form and its content.                                                    *)

JsonText(form, body) == [form |-> form, body |-> body]

Serializable(v) == v.kind \in {"dict", "list", "tuple", "str", "bool", "NoneType"}

JsonEncode(v) ==
    CASE v.kind = "dict" -> JsonText("object", v.body)
      [] v.kind \in {"list", "tuple"} -> JsonText("array", v.body)
      [] v.kind = "str" -> JsonText("string", v.body)
      [] v.kind = "bool" -> JsonText("literal", IF v.body = "True" THEN "true" ELSE "false")
      [] v.kind = "NoneType" -> JsonText("literal", "null")

JsonDecode(t) ==
    CASE t.form = "object" -> PyValue("dict", t.body)
      [] t.form = "array" -> PyValue("list", t.body)
      [] t.form = "string" -> PyValue("str", t.body)
      [] t.form = "literal" ->
            IF t.body = "null" THEN PyNone ELSE PyBool(t.body = "true")

LogsSerializable(l) == \A r \in DOMAIN l : \A a \in DOMAIN l[r] : Serializable(l[r][a])

JsonDumps(l) == [r \in DOMAIN l |-> [a \in DOMAIN l[r] |-> JsonEncode(l[r][a])]]

JsonLoads(doc) == [r \in DOMAIN doc |-> [a \in DOMAIN doc[r] |-> JsonDecode(doc[r][a])]]

EmptyDoc == [r \in {} |-> [a \in {} |-> JsonText("literal", "null")]]

NoFile == [exists |-> FALSE, valid |-> FALSE, doc |-> EmptyDoc]
Truncated == [exists |-> TRUE, valid |-> FALSE, doc |-> EmptyDoc]
LedgerFile(doc) == [exists |-> TRUE, valid |-> TRUE, doc |-> doc]

-----------------------------------------------------------------------------
(* Run names: strings, kept as sequences of code points, ordered as Python  *)
(* orders str.                                                              *)

RECURSIVE StrLess(_, _)
StrLess(a, b) ==
    IF a = <<>> THEN b # <<>>
    ELSE IF b = <<>> THEN FALSE
    ELSE IF Head(a) = Head(b) THEN StrLess(Tail(a), Tail(b))
    ELSE Head(a) < Head(b)

Digit(d) == 48 + d

Pad2Unpadded(n) == IF n < 10 THEN <<Digit(n)>> ELSE <<Digit(n \div 10), Digit(n % 10)>>

\* %H, %M, %S: two digits, zero-padded.
Pad2(n) == <<Digit(n \div 10), Digit(n % 10)>>

\* "20240115-": the clock readings of the model all fall on one day.
DatePrefix == <<50, 48, 50, 52, 48, 49, 49, 53, 45>>

\* datetime.strftime('%Y%m%d-%H%M%S') of the reading t seconds after midnight.
Strftime(t) ==
    DatePrefix \o Pad2(t \div 3600) \o Pad2((t % 3600) \div 60) \o Pad2(t % 60)

\* Clock readings create_new_entry may see.
Times == {9, 10, 61}

\* The name that sorts first under sort(reverse=True).
Greatest(S) == CHOOSE x \in S : \A y \in S : y = x \/ StrLess(y, x)

RECURSIVE SortedReverse(_)
SortedReverse(S) ==
    IF S = {} THEN <<>>
    ELSE LET g == Greatest(S) IN <<g>> \o SortedReverse(S \ {g})

-----------------------------------------------------------------------------
(* The collaborators: open_shp (ARIAtools.util.shp) and shapely's from_wkt. *)

Polygon(ring) == [type |-> "Polygon", ring |-> ring]
PolyA == Polygon(<<<<0, 0>>, <<1, 0>>, <<1, 1>>, <<0, 0>>>>)
PolyB == Polygon(<<<<0, 0>>, <<2, 0>>, <<2, 2>>, <<0, 0>>>>)

WktA == "POLYGON ((0 0, 1 0, 1 1, 0 0))"
WktB == "POLYGON ((0 0, 2 0, 2 2, 0 0))"

\* The shapefiles on disk.
Shapefiles == [p \in {"a.shp", "a_copy.shp", "b.shp"} |-> IF p = "b.shp" THEN PolyB ELSE PolyA]

OpenShpFails(v) == ~(v.kind = "str" /\ v.body \in DOMAIN Shapefiles)

OpenShp(v) == Shapefiles[v.body]

Wkt(g) == IF g = PolyA THEN WktA ELSE WktB

FromWkt(v) == IF v.body = WktA THEN PolyA ELSE PolyB

-----------------------------------------------------------------------------
(* The methods of RunLog, as functions of the file and of self.logs.  Each  *)
(* yields what the call raised (exc, "" when it returned) and what it left  *)
(* behind.                                                                  *)

\* d[k] = v on a dict.
SetItem(d, k, v) == [x \in DOMAIN d \cup {k} |-> IF x = k THEN v ELSE d[x]]

LoadReturnsEmptyList(f, l) ==
    IF ~f.exists
    THEN [exc |-> "", isNone |-> FALSE, names |-> <<>>, logs |-> l]
    ELSE IF ~f.valid
    THEN [exc |-> "JSONDecodeError", isNone |-> FALSE, names |-> <<>>, logs |-> l]
    ELSE [exc |-> "", isNone |-> FALSE, names |-> SortedReverse(DOMAIN f.doc),
          logs |-> JsonLoads(f.doc)]

Load(f, l) ==
    IF ~f.exists
    THEN [exc |-> "", isNone |-> TRUE, names |-> <<>>, logs |-> l]
    ELSE IF ~f.valid
    THEN [exc |-> "JSONDecodeError", isNone |-> FALSE, names |-> <<>>, logs |-> l]
    ELSE [exc |-> "", isNone |-> FALSE, names |-> SortedReverse(DOMAIN f.doc),
          logs |-> JsonLoads(f.doc)]

\* open(file_name, 'w') truncates the file before json.dump encodes anything.
Dump(l) ==
    IF LogsSerializable(l)
    THEN [exc |-> "", file |-> LedgerFile(JsonDumps(l)), logs |-> l]
    ELSE [exc |-> "TypeError", file |-> Truncated, logs |-> l]

\* What log_names[i] raises ("" when it yields an element); i counts from 0.
SubscriptError(ld, i) ==
    IF ld.isNone THEN "TypeError"
    ELSE IF Len(ld.names) <= i THEN "IndexError"
    ELSE ""

OldestRun(ld) == ld.names[Len(ld.names)]

\* current_run = log_names[0]
CurrentRun(ld) == ld.names[1]

IsFirstBboxKey(atr_name) == atr_name = "prods_TOTbbox"

\* atr_name in ['prods_TOTbbox', 'prods_TOTbbox_metadatalyr']
IsBboxKey(atr_name) == atr_name \in BboxKeys

WriteQuietWithoutRuns(f, l, atr_name, atr_value) ==
    LET ld == Load(f, l) IN
    IF ld.exc # "" THEN [exc |-> ld.exc, file |-> f, logs |-> ld.logs]
    ELSE IF SubscriptError(ld, 0) # ""
    THEN [exc |-> "", file |-> f, logs |-> ld.logs]
    ELSE
        LET current_run == CurrentRun(ld)
            l1 == [ld.logs EXCEPT ![current_run] = SetItem(@, atr_name, atr_value)]
        IN  IF IsBboxKey(atr_name)
            THEN IF OpenShpFails(atr_value)
                 THEN [exc |-> "OpenShpError", file |-> f, logs |-> l1]
                 ELSE Dump([l1 EXCEPT ![current_run] =
                               SetItem(@, PolyName(atr_name),
                                       PyStr(Wkt(OpenShp(atr_value))))])
            ELSE Dump(l1)

Write(f, l, atr_name, atr_value) ==
    LET ld == Load(f, l) IN
    IF ld.exc # "" THEN [exc |-> ld.exc, file |-> f, logs |-> ld.logs]
    ELSE IF SubscriptError(ld, 0) # ""
    THEN [exc |-> SubscriptError(ld, 0), file |-> f, logs |-> ld.logs]
    ELSE
        LET current_run == CurrentRun(ld)
            l1 == [ld.logs EXCEPT ![current_run] = SetItem(@, atr_name, atr_value)]
        IN  IF IsBboxKey(atr_name)
            THEN IF OpenShpFails(atr_value)
                 THEN [exc |-> "OpenShpError", file |-> f, logs |-> l1]
                 ELSE Dump([l1 EXCEPT ![current_run] =
                               SetItem(@, PolyName(atr_name),
                                       PyStr(Wkt(OpenShp(atr_value))))])
            ELSE Dump(l1)

CreateNewEntryReplaces(f, l, t) ==
    LET ld == IF f.exists THEN Load(f, l)
              ELSE [exc |-> "", isNone |-> TRUE, names |-> <<>>, logs |-> l]
    IN  IF ld.exc # "" THEN [exc |-> ld.exc, file |-> f, logs |-> ld.logs]
        ELSE Dump(SetItem(EmptyLogs, Strftime(t), EmptyRecord))

CreateNewEntryKeepsExisting(f, l, t) ==
    LET ld == IF f.exists THEN Load(f, l)
              ELSE [exc |-> "", isNone |-> TRUE, names |-> <<>>, logs |-> l]
    IN  IF ld.exc # "" THEN [exc |-> ld.exc, file |-> f, logs |-> ld.logs]
        ELSE IF Strftime(t) \in DOMAIN ld.logs THEN Dump(ld.logs)
        ELSE Dump(SetItem(ld.logs, Strftime(t), EmptyRecord))

CreateNewEntryNoLoad(f, l, t) == Dump(SetItem(l, Strftime(t), EmptyRecord))

CreateNewEntry(f, l, t) ==
    LET ld == IF f.exists THEN Load(f, l)
              ELSE [exc |-> "", isNone |-> TRUE, names |-> <<>>, logs |-> l]
    IN  IF ld.exc # "" THEN [exc |-> ld.exc, file |-> f, logs |-> ld.logs]
        ELSE Dump(SetItem(ld.logs, Strftime(t), EmptyRecord))

\* return self.logs[log_names[i]]; i counts from 0.
GetEntry(f, l, i) ==
    LET ld == Load(f, l) IN
    IF ld.exc # "" THEN [exc |-> ld.exc, rec |-> EmptyRecord, logs |-> ld.logs]
    ELSE IF SubscriptError(ld, i) # ""
    THEN [exc |-> SubscriptError(ld, i), rec |-> EmptyRecord, logs |-> ld.logs]
    ELSE [exc |-> "", rec |-> ld.logs[ld.names[i + 1]], logs |-> ld.logs]

GetCurrent(f, l) == GetEntry(f, l, 0)

GetPreviousIsCurrent(f, l) == GetEntry(f, l, 0)

GetPrevious(f, l) == GetEntry(f, l, 1)

PresetRerunTrue == TRUE

\* rerun = False
PresetRerun == FALSE

CompareArgsAbsentIsEqual(curr_log, prev_log, rerun) ==
    IF "args" \in DOMAIN curr_log /\ "args" \in DOMAIN prev_log
    THEN IF curr_log["args"] = prev_log["args"] THEN TRUE ELSE rerun
    ELSE TRUE

CompareArgsWholeRecord(curr_log, prev_log, rerun) ==
    IF curr_log = prev_log THEN TRUE ELSE rerun

\* Compare current arguments to previous.
CompareArgs(curr_log, prev_log, rerun) ==
    IF "args" \in DOMAIN curr_log /\ "args" \in DOMAIN prev_log
    THEN IF curr_log["args"] = prev_log["args"] THEN TRUE ELSE rerun
    ELSE rerun

CompareBboxKeepsRerun(curr_log, prev_log, rerun) ==
    IF "prods_TOTbbox_poly" \in DOMAIN curr_log /\ "prods_TOTbbox_poly" \in DOMAIN prev_log
    THEN IF FromWkt(curr_log["prods_TOTbbox_poly"]) = FromWkt(prev_log["prods_TOTbbox_poly"])
         THEN TRUE ELSE rerun
    ELSE rerun

\* Check bounding boxes.
CompareBbox(curr_log, prev_log, rerun) ==
    IF "prods_TOTbbox_poly" \in DOMAIN curr_log /\ "prods_TOTbbox_poly" \in DOMAIN prev_log
    THEN FromWkt(curr_log["prods_TOTbbox_poly"]) = FromWkt(prev_log["prods_TOTbbox_poly"])
    ELSE rerun

\* The comparisons determine_rerun makes on the two records.
Compared(curr_log, prev_log) ==
    (IF "args" \in DOMAIN curr_log /\ "args" \in DOMAIN prev_log THEN {"args"} ELSE {})
    \cup (IF "prods_TOTbbox_poly" \in DOMAIN curr_log
             /\ "prods_TOTbbox_poly" \in DOMAIN prev_log THEN {"bbox"} ELSE {})

PreviousRunIsLast(ld) == ld.names[Len(ld.names)]

\* curr_log_name, prev_log_name = log_names[:2]
PreviousRun(ld) == ld.names[2]

WrittenRerunPreset(rerun) == PyBool(FALSE)

\* The value of self.write('rerun', rerun).
WrittenRerun(rerun) == PyBool(rerun)

DetermineRerun(f, l) ==
    LET ld == Load(f, l) IN
    IF ld.exc # ""
    THEN [exc |-> ld.exc, file |-> f, logs |-> ld.logs, rerun |-> PresetRerun,
          compared |-> {}]
    ELSE IF ld.isNone
    THEN [exc |-> "TypeError", file |-> f, logs |-> ld.logs, rerun |-> PresetRerun,
          compared |-> {}]
    ELSE LET many == Len(ld.names) > 1
             curr_log == ld.logs[ld.names[1]]
             prev_log == ld.logs[PreviousRun(ld)]
             rerun == IF many
                      THEN CompareBbox(curr_log, prev_log,
                                       CompareArgs(curr_log, prev_log, PresetRerun))
                      ELSE PresetRerun
             w == Write(f, ld.logs, "rerun", WrittenRerun(rerun))
         IN  [exc |-> w.exc, file |-> w.file, logs |-> w.logs, rerun |-> rerun,
              compared |-> IF many THEN Compared(curr_log, prev_log) ELSE {}]

-----------------------------------------------------------------------------
(* The state machine.                                                       *)

NoCall ==
    [op |-> "none", name |-> "", value |-> PyNone, t |-> 0, exc |-> "",
     isNone |-> FALSE, names |-> <<>>, rec |-> EmptyRecord, val |-> PyNone,
     compared |-> {}, repeated |-> FALSE]

\* The RunLog instances that share one working directory.
Inst == {1, 2}

\* An update of the ledger: the run it is made in and the attribute it sets
\* ("" for the run created by create_new_entry).
Update(run, name) == [run |-> run, name |-> name]
NoUpdate == Update(<<>>, "")

\* Records an earlier run of the pipeline may have left in the file.
PriorRecords ==
    { EmptyRecord,
      SetItem(EmptyRecord, "args", ArgsX1),
      SetItem(SetItem(SetItem(EmptyRecord, "args", ArgsX1),
                      "prods_TOTbbox", PathA), "prods_TOTbbox_poly", PyStr(WktA)) }

\* The reading at which the earlier run was created.
PriorTime == CHOOSE t \in Times : \A u \in Times : t <= u

\* RunLog(workdir): the file is absent, or holds an empty JSON object, or
\* holds the record of one earlier run.
Init ==
    /\ \/ file = NoFile /\ clockLog = <<>>
       \/ file = LedgerFile(EmptyDoc) /\ clockLog = <<>>
       \/ \E r \in PriorRecords :
             /\ file = LedgerFile(JsonDumps(SetItem(EmptyLogs, Strftime(PriorTime), r)))
             /\ clockLog = <<PriorTime>>
    /\ logs = EmptyLogs
    /\ ret = NoCall
    /\ nops = 0
    /\ pc = [i \in Inst |-> "idle"]
    /\ mem = [i \in Inst |-> EmptyLogs]
    /\ pending = [i \in Inst |-> NoUpdate]
    /\ done = {}
    /\ raced = FALSE

load ==
    /\ nops < MaxOps
    /\ LET o == Load(file, logs) IN
       /\ logs' = o.logs
       /\ ret' = [NoCall EXCEPT !.op = "load", !.exc = o.exc, !.isNone = o.isNone,
                                !.names = o.names]
    /\ nops' = nops + 1
    /\ UNCHANGED <<file, clockLog>>
    /\ UNCHANGED raceVars

write(name, value) ==
    /\ nops < MaxOps
    /\ LET o == Write(file, logs, name, value) IN
       /\ file' = o.file
       /\ logs' = o.logs
       /\ ret' = [NoCall EXCEPT !.op = "write", !.name = name, !.value = value,
                                !.exc = o.exc]
    /\ nops' = nops + 1
    /\ UNCHANGED clockLog
    /\ UNCHANGED raceVars

create_new_entry(t) ==
    /\ nops < MaxOps
    /\ LET o == CreateNewEntry(file, logs, t) IN
       /\ file' = o.file
       /\ logs' = o.logs
       /\ ret' = [NoCall EXCEPT !.op = "create_new_entry", !.t = t, !.exc = o.exc]
    /\ clockLog' = Append(clockLog, t)
    /\ nops' = nops + 1
    /\ UNCHANGED raceVars

get_current ==
    /\ nops < MaxOps
    /\ LET o == GetCurrent(file, logs) IN
       /\ logs' = o.logs
       /\ ret' = [NoCall EXCEPT !.op = "get_current", !.exc = o.exc, !.rec = o.rec]
    /\ nops' = nops + 1
    /\ UNCHANGED <<file, clockLog>>
    /\ UNCHANGED raceVars

get_previous ==
    /\ nops < MaxOps
    /\ LET o == GetPrevious(file, logs) IN
       /\ logs' = o.logs
       /\ ret' = [NoCall EXCEPT !.op = "get_previous", !.exc = o.exc, !.rec = o.rec]
    /\ nops' = nops + 1
    /\ UNCHANGED <<file, clockLog>>
    /\ UNCHANGED raceVars

determine_rerun ==
    /\ nops < MaxOps
    /\ LET o == DetermineRerun(file, logs) IN
       /\ file' = o.file
       /\ logs' = o.logs
       /\ ret' = [NoCall EXCEPT !.op = "determine_rerun", !.exc = o.exc,
                                !.val = IF o.exc = "" THEN PyBool(o.rerun) ELSE PyNone,
                                !.compared = o.compared,
                                !.repeated = (ret.op = "determine_rerun" /\ ret.exc = "")]
    /\ nops' = nops + 1
    /\ UNCHANGED clockLog
    /\ UNCHANGED raceVars

Next ==
    \/ load
    \/ \E c \in WriteCalls : write(c[1], c[2])
    \/ \E t \in Times : create_new_entry(t)
    \/ get_current
    \/ get_previous
    \/ determine_rerun

Spec == Init /\ [][Next]_vars

-----------------------------------------------------------------------------
(* Two instances on one working directory.  write and create_new_entry      *)
(* read the file (load) and rewrite it (dump) in two steps, and the other   *)
(* instance may run between them.                                           *)

\* The calls of write() the racing instances make.
RaceWrites == {<<"args", ArgsX1>>, <<"prods_TOTbbox", PathB>>}

\* write, lines 67-74: reload, assign in self.logs; the dump is still to come.
RaceWriteLoad(i, name, value) ==
    /\ nops < MaxOps
    /\ pc[i] = "idle"
    /\ LET o == Write(file, mem[i], name, value) IN
       /\ mem' = [mem EXCEPT ![i] = o.logs]
       /\ IF o.exc = ""
          THEN /\ pc' = [pc EXCEPT ![i] = "dump"]
               /\ pending' = [pending EXCEPT
                                 ![i] = Update(CurrentRun(Load(file, mem[i])), name)]
               /\ raced' = (raced \/ \E j \in Inst \ {i} : pc[j] = "dump")
          ELSE UNCHANGED <<pc, pending, raced>>
    /\ nops' = nops + 1
    /\ UNCHANGED <<file, logs, ret, clockLog, done>>

\* create_new_entry, lines 90-95, at a clock reading later than every earlier one.
RaceCreateLoad(i, t) ==
    /\ nops < MaxOps
    /\ pc[i] = "idle"
    /\ \A k \in 1..Len(clockLog) : clockLog[k] < t
    /\ LET o == CreateNewEntry(file, mem[i], t) IN
       /\ mem' = [mem EXCEPT ![i] = o.logs]
       /\ IF o.exc = ""
          THEN /\ pc' = [pc EXCEPT ![i] = "dump"]
               /\ pending' = [pending EXCEPT ![i] = Update(Strftime(t), "")]
               /\ raced' = (raced \/ \E j \in Inst \ {i} : pc[j] = "dump")
          ELSE UNCHANGED <<pc, pending, raced>>
    /\ clockLog' = Append(clockLog, t)
    /\ nops' = nops + 1
    /\ UNCHANGED <<file, logs, ret, done>>

\* self.dump(), lines 76 and 96; the call then returns.
RaceDump(i) ==
    /\ pc[i] = "dump"
    /\ file' = Dump(mem[i]).file
    /\ pc' = [pc EXCEPT ![i] = "idle"]
    /\ done' = done \cup {pending[i]}
    /\ UNCHANGED <<logs, ret, clockLog, nops, mem, pending, raced>>

NextRace ==
    \/ \E i \in Inst : \E c \in RaceWrites : RaceWriteLoad(i, c[1], c[2])
    \/ \E i \in Inst : \E t \in Times : RaceCreateLoad(i, t)
    \/ \E i \in Inst : RaceDump(i)

SpecRace == Init /\ [][NextRace]_vars

-----------------------------------------------------------------------------
(* Vocabulary of the properties.                                            *)

\* The step is a call of the method op.
Called(op) == nops' = nops + 1 /\ ret'.op = op

Returned(op) == ret.op = op /\ ret.exc = ""

\* The file holds a ledger of at least n runs.
HasRuns(f, n) == f.exists /\ f.valid /\ Cardinality(DOMAIN f.doc) >= n

\* No run exists: the file is absent or holds the empty ledger.
NoRuns(f) == ~f.exists \/ (f.valid /\ DOMAIN f.doc = {})

OneRun(f) == f.exists /\ f.valid /\ Cardinality(DOMAIN f.doc) = 1

\* The records a reader of the file obtains.
Stored(f) == JsonLoads(f.doc)

\* The lexicographically greatest run name of the file, and the one below it.
Newest(f) == CHOOSE r \in DOMAIN f.doc : \A q \in DOMAIN f.doc : ~StrLess(r, q)
Second(f) ==
    CHOOSE r \in DOMAIN f.doc \ {Newest(f)} :
        \A q \in DOMAIN f.doc \ {Newest(f)} : ~StrLess(r, q)

BothHave(f, a) == a \in DOMAIN f.doc[Newest(f)] /\ a \in DOMAIN f.doc[Second(f)]

PolyNames == {"prods_TOTbbox_poly", "prods_TOTbbox_metadatalyr_poly"}

\* The attributes of record rec outside the set of names A.
Outside(rec, A) == [a \in DOMAIN rec \ A |-> rec[a]]

-----------------------------------------------------------------------------
(* C1.  Round trip: after write(name, value) has returned, load() yields a  *)
(* ledger whose most recent record holds exactly value under name.          *)
C1_RoundTrip ==
    Returned("write") =>
        LET ld == Load(file, logs) IN
        /\ ld.exc = "" /\ ~ld.isNone
        /\ ret.name \in DOMAIN ld.logs[Newest(file)]
        /\ ld.logs[Newest(file)][ret.name] = ret.value

(* C2.  With at least two runs whose two most recent records do not both    *)
(* hold prods_TOTbbox_poly, determine_rerun returns true exactly when both  *)
(* records hold args and the two args are equal.                            *)
C2_ArgsDecide ==
    [][(/\ Called("determine_rerun")
        /\ HasRuns(file, 2)
        /\ ~BothHave(file, "prods_TOTbbox_poly"))
       => /\ ret'.exc = ""
          /\ ret'.val = PyBool(/\ BothHave(file, "args")
                               /\ Stored(file)[Newest(file)]["args"]
                                  = Stored(file)[Second(file)]["args"])]_vars

C2_Witness ==
    /\ Returned("determine_rerun")
    /\ HasRuns(file, 2)
    /\ ~BothHave(file, "prods_TOTbbox_poly")
    /\ BothHave(file, "args")
    /\ ret.val = PyBool(TRUE)

(* C3.  With at least two runs whose two most recent records both hold      *)
(* prods_TOTbbox_poly, determine_rerun returns true if the two polygons are *)
(* equal and false if they are not, whatever the args.                      *)
C3_BboxDecides ==
    [][(/\ Called("determine_rerun")
        /\ HasRuns(file, 2)
        /\ BothHave(file, "prods_TOTbbox_poly"))
       => /\ ret'.exc = ""
          /\ ret'.val = PyBool(FromWkt(Stored(file)[Newest(file)]["prods_TOTbbox_poly"])
                               = FromWkt(Stored(file)[Second(file)]["prods_TOTbbox_poly"]))]_vars

\* Equal polygons with differing args: true.
C3_Witness ==
    /\ Returned("determine_rerun")
    /\ HasRuns(file, 2)
    /\ BothHave(file, "prods_TOTbbox_poly")
    /\ BothHave(file, "args")
    /\ Stored(file)[Newest(file)]["args"] # Stored(file)[Second(file)]["args"]
    /\ ret.val = PyBool(TRUE)

(* C4, as stated.  Whenever fewer than two runs exist (no file, an empty    *)
(* ledger, or one run), determine_rerun makes no comparison and returns     *)
(* false.                                                                   *)
C4_ShortCircuit ==
    [][(/\ Called("determine_rerun")
        /\ (NoRuns(file) \/ OneRun(file)))
       => /\ ret'.exc = ""
          /\ ret'.val = PyBool(FALSE)
          /\ ret'.compared = {}]_vars

(* C4, amended.  When exactly one run exists, determine_rerun makes no      *)
(* comparison and returns false; when no run exists (no file, or an empty   *)
(* ledger) it raises, returns nothing and leaves the file as it was.        *)
C4_ShortCircuitOneRun ==
    [][Called("determine_rerun")
       => /\ OneRun(file) => /\ ret'.exc = ""
                             /\ ret'.val = PyBool(FALSE)
                             /\ ret'.compared = {}
          /\ NoRuns(file) => /\ ret'.exc \in {"TypeError", "IndexError"}
                             /\ file' = file]_vars

C4_Witness ==
    /\ Returned("determine_rerun")
    /\ OneRun(file)
    /\ ret.val = PyBool(FALSE)
    /\ ret.compared = {}

(* C5.  A write of prods_TOTbbox or prods_TOTbbox_metadatalyr that returns  *)
(* stores, in the same record, name + '_poly' equal to the WKT text of the  *)
(* geometry loaded from the value; a write of any other name creates or     *)
(* changes no '_poly' attribute.                                            *)
C5_BboxDerivation ==
    [][(Called("write") /\ ret'.exc = "")
       => IF ret'.name \in BboxKeys
          THEN /\ ret'.name \in DOMAIN Stored(file')[Newest(file')]
               /\ PolyName(ret'.name) \in DOMAIN Stored(file')[Newest(file')]
               /\ Stored(file')[Newest(file')][PolyName(ret'.name)]
                  = PyStr(Wkt(Shapefiles[ret'.value.body]))
          ELSE \A r \in DOMAIN file'.doc :
                  \A a \in PolyNames :
                      /\ a \in DOMAIN file'.doc[r] <=> a \in DOMAIN file.doc[r]
                      /\ a \in DOMAIN file.doc[r] => file'.doc[r][a] = file.doc[r][a]]_vars

C5_Witness ==
    /\ Returned("write")
    /\ ret.name = "prods_TOTbbox_metadatalyr"
    /\ ret.value = PathB
    /\ Stored(file)[Newest(file)]["prods_TOTbbox_metadatalyr_poly"] = PyStr(WktB)

(* C6.  When the runs of the ledger were created at strictly increasing     *)
(* clock readings, the list load() returns names them newest-created first, *)
(* get_current returns the record of the run created last and get_previous  *)
(* the record of the run created just before it.                            *)
Increasing(log) == \A i \in 1..(Len(log) - 1) : log[i] < log[i + 1]

Touched(name) == {name} \cup (IF name \in BboxKeys THEN {PolyName(name)} ELSE {})

C7_WriteFrame ==
    [][(Called("write") /\ ret'.exc = "")
       => /\ HasRuns(file, 1)
          /\ file'.exists /\ file'.valid
          /\ DOMAIN file'.doc = DOMAIN file.doc
          /\ \A r \in DOMAIN file.doc \ {Newest(file)} : file'.doc[r] = file.doc[r]
          /\ Outside(file'.doc[Newest(file)], Touched(ret'.name))
             = Outside(file.doc[Newest(file)], Touched(ret'.name))]_vars

C7_Witness ==
    /\ Returned("write")
    /\ ret.name = "args"
    /\ HasRuns(file, 2)
    /\ "prods_TOTbbox_poly" \in DOMAIN file.doc[Newest(file)]
    /\ "args" \in DOMAIN file.doc[Second(file)]
    /\ file.doc[Second(file)]["args"] # file.doc[Newest(file)]["args"]

(* C8.  When the file does not exist, load() returns None (not a list),     *)
(* raises nothing, leaves self.logs as it was and creates no file; so does  *)
(* every further call.                                                      *)
C8_EmptyLoad ==
    [][(Called("load") /\ ~file.exists)
       => /\ ret'.exc = ""
          /\ ret'.isNone
          /\ ret'.names = <<>>
          /\ logs' = logs
          /\ file' = file]_vars

\* load() on the absent file, after an earlier call.
C8_Witness ==
    /\ Returned("load")
    /\ ret.isNone
    /\ ~file.exists
    /\ nops >= 2

(* C9.  write called when no run exists (file absent, or present with zero  *)
(* runs) raises and records nothing: no run is added, no file is created,   *)
(* an existing file keeps its content.                                      *)
C9_WriteNeedsRun ==
    [][(Called("write") /\ NoRuns(file))
       => /\ ret'.exc \in {"TypeError", "IndexError"}
          /\ file' = file]_vars

C9_Witness ==
    /\ ret.op = "write"
    /\ ret.exc = "IndexError"
    /\ file = LedgerFile(EmptyDoc)

C11_RerunWritten ==
    [][(Called("determine_rerun") /\ ret'.exc = "")
       => /\ HasRuns(file, 1)
          /\ file'.exists /\ file'.valid
          /\ DOMAIN file'.doc = DOMAIN file.doc
          /\ "rerun" \in DOMAIN file'.doc[Newest(file)]
          /\ Stored(file')[Newest(file)]["rerun"] = ret'.val
          /\ \A r \in DOMAIN file.doc \ {Newest(file)} : file'.doc[r] = file.doc[r]
          /\ Outside(file'.doc[Newest(file)], {"rerun"})
             = Outside(file.doc[Newest(file)], {"rerun"})]_vars

\* rerun = True stored beside other attributes, the older record untouched.
C11_Witness ==
    /\ Returned("determine_rerun")
    /\ HasRuns(file, 2)
    /\ ret.val = PyBool(TRUE)
    /\ Stored(file)[Newest(file)]["rerun"] = PyBool(TRUE)
    /\ "args" \in DOMAIN file.doc[Newest(file)]
    /\ "rerun" \notin DOMAIN file.doc[Second(file)]

(* C12.  create_new_entry on an existing ledger file keeps every run name   *)
(* other than the new one with its record unchanged, and maps the new name  *)
(* to an empty record.                                                      *)
C12_CreateMerges ==
    [][(Called("create_new_entry") /\ HasRuns(file, 0))
       => /\ ret'.exc = ""
          /\ file'.exists /\ file'.valid
          /\ DOMAIN file'.doc = DOMAIN file.doc \cup {Strftime(ret'.t)}
          /\ \A r \in DOMAIN file.doc \ {Strftime(ret'.t)} : file'.doc[r] = file.doc[r]
          /\ Stored(file')[Strftime(ret'.t)] = EmptyRecord]_vars

\* A third run added beside two earlier ones, one of which holds attributes.
C12_Witness ==
    /\ Returned("create_new_entry")
    /\ HasRuns(file, 3)
    /\ Newest(file) = Strftime(ret.t)
    /\ Stored(file)[Newest(file)] = EmptyRecord
    /\ \E r \in DOMAIN file.doc : Stored(file)[r] # EmptyRecord

(* C13.  A create_new_entry within the clock second of an existing run      *)
(* yields the same name without error, replaces that run's record by an     *)
(* empty record and leaves the number of runs unchanged.                    *)
C13_SameSecond ==
    [][(/\ Called("create_new_entry")
        /\ HasRuns(file, 1)
        /\ Strftime(ret'.t) \in DOMAIN file.doc)
       => /\ ret'.exc = ""
          /\ file'.exists /\ file'.valid
          /\ DOMAIN file'.doc = DOMAIN file.doc
          /\ Stored(file')[Strftime(ret'.t)] = EmptyRecord]_vars

\* The second call of the same second has returned; the run is one, empty.
C13_Witness ==
    /\ Returned("create_new_entry")
    /\ \E i, j \in 1..Len(clockLog) : i < j /\ clockLog[i] = ret.t /\ clockLog[j] = ret.t
    /\ OneRun(file)
    /\ Stored(file)[Strftime(ret.t)] = EmptyRecord
    /\ nops >= 3

(* C14.  Run records are never deleted: whatever method is called, a run    *)
(* name present in the ledger file is present in the file afterwards.       *)
C14_NeverDeleted ==
    [][\A r \in DOMAIN file.doc :
          file'.exists /\ file'.valid /\ r \in DOMAIN file'.doc]_vars

(* C15.  Lost update under racing writers: with two instances whose loads   *)
(* and dumps interleave, a call that returned without error can have its    *)
(* attribute or its run name missing from the file.  Every dump leaves in   *)
(* the file exactly the dumping instance's ledger (the last dump wins), and *)
(* an update is lost only when calls have interleaved.                      *)
Lost ==
    {u \in done :
        \/ ~(file.exists /\ file.valid)
        \/ u.run \notin DOMAIN file.doc
        \/ (u.name # "" /\ u.name \notin DOMAIN file.doc[u.run])}

C15_LastDumpWins ==
    [][/\ \A i \in Inst : (pc[i] = "dump" /\ pc'[i] = "idle")
                             => (file'.exists /\ file'.valid /\ Stored(file') = mem[i])
       /\ Lost' # {} => raced']_vars

\* Both calls have returned and an attribute one of them wrote is not in the file.
C15_Witness ==
    /\ \A i \in Inst : pc[i] = "idle"
    /\ \E u \in Lost : u.name # "" /\ u.run \in DOMAIN file.doc
    /\ \E u \in done \ Lost : u.name # ""

(* C16.  A write of prods_TOTbbox or prods_TOTbbox_metadatalyr whose         *)
(* geometry cannot be loaded raises the loader's error and leaves the file  *)
(* unchanged, although the value is by then assigned in self.logs; and no   *)
(* call ever puts such a value into the file.                               *)
C16_FailedWriteNotPersisted ==
    [][/\ (/\ Called("write")
           /\ ret'.name \in BboxKeys
           /\ HasRuns(file, 1)
           /\ OpenShpFails(ret'.value))
          => /\ ret'.exc = "OpenShpError"
             /\ file' = file
             /\ logs'[Newest(file)][ret'.name] = ret'.value
       /\ (file'.exists /\ file'.valid)
          => \A r \in DOMAIN file'.doc :
                \A k \in BboxKeys :
                    k \in DOMAIN file'.doc[r] => ~OpenShpFails(Stored(file')[r][k])]_vars

\* The failed write has left the value in self.logs and not in the file.
C16_Witness ==
    /\ ret.op = "write"
    /\ ret.exc = "OpenShpError"
    /\ ret.value = PathMissing
    /\ HasRuns(file, 2)
    /\ logs[Newest(file)]["prods_TOTbbox"] = PathMissing
    /\ "prods_TOTbbox" \notin DOMAIN file.doc[Newest(file)]
    /\ "args" \in DOMAIN file.doc[Newest(file)]

(* C17.  determine_rerun is idempotent: called again right after it has     *)
(* returned, it returns the same boolean and leaves the file as the first   *)
(* call left it.                                                            *)
C17_RerunIdempotent ==
    [][(Called("determine_rerun") /\ Returned("determine_rerun"))
       => /\ ret'.exc = ""
          /\ ret'.val = ret.val
          /\ file' = file]_vars

\* The second of two calls in a row has returned true.
C17_Witness ==
    /\ Returned("determine_rerun")
    /\ ret.repeated
    /\ HasRuns(file, 2)
    /\ ret.val = PyBool(TRUE)

(* C18.  The result of determine_rerun depends only on args and             *)
(* prods_TOTbbox_poly of the two most recent records: it is the result on   *)
(* the ledger cut down to those attributes of those two records, and the    *)
(* result on that ledger with other attributes and an older run added.      *)
Relevant == {"args", "prods_TOTbbox_poly"}

Projected(f) ==
    LedgerFile([r \in {Newest(f), Second(f)} |->
                   [a \in DOMAIN f.doc[r] \cap Relevant |-> f.doc[r][a]]])

\* Both records given a rerun value and a metadata-layer polygon, and an
\* older run added that holds args and a polygon of its own.
Decorated(f) ==
    LET extra == [a \in {"rerun", "prods_TOTbbox_metadatalyr_poly"} |->
                     IF a = "rerun" THEN JsonEncode(PyBool(TRUE))
                     ELSE JsonEncode(PyStr(WktB))]
        older == [a \in Relevant |->
                     IF a = "args" THEN JsonEncode(ArgsX2) ELSE JsonEncode(PyStr(WktB))]
        kept == [r \in DOMAIN f.doc |->
                    [a \in DOMAIN f.doc[r] \cup DOMAIN extra |->
                        IF a \in DOMAIN f.doc[r] THEN f.doc[r][a] ELSE extra[a]]]
    IN  LedgerFile(SetItem(kept, Strftime(0), older))

C18_DependsOnArgsAndBbox ==
    [][(Called("determine_rerun") /\ HasRuns(file, 2))
       => /\ ret'.exc = ""
          /\ \A g \in {Projected(file), Decorated(Projected(file))} :
                /\ DetermineRerun(g, EmptyLogs).exc = ""
                /\ PyBool(DetermineRerun(g, EmptyLogs).rerun) = ret'.val]_vars

\* Three runs, the previous one still holding the rerun value of its own call.
C18_Witness ==
    /\ Returned("determine_rerun")
    /\ HasRuns(file, 3)
    /\ "rerun" \in DOMAIN file.doc[Second(file)]
    /\ \E r \in DOMAIN file.doc \ {Newest(file), Second(file)} : "args" \in DOMAIN file.doc[r]

====
